---- MODULE Spec2Model ----
(***************************************************************************)
(* watcher.py: tails the nginx access log, keeps a rolling window of       *)
(* request outcomes, detects pool flips and high 5xx rates, and posts      *)
(* cooldown-gated alerts to Slack.                                         *)
(***************************************************************************)
EXTENDS Integers, Sequences, FiniteSets, TLC

(***************************************************************************)
(* Bounds of the model.                                                    *)
(***************************************************************************)
\* clock readings time.time() are drawn from 0..MaxTime
MaxTime == 2
\* ALERT_COOLDOWN_SEC is drawn from 1..MaxCooldown
MaxCooldown == 2
\* WINDOW_SIZE is drawn from 0..MaxN
MaxN == 2

Times == 0..MaxTime

None == "None"

Categories == {"failover", "error_rate"}

(***************************************************************************)
(* Python float arithmetic (IEEE-754 binary64, round to nearest even).     *)
(* A positive float is [e, m]: m is its 53-bit significand as five limbs,  *)
(* the leading bit followed by four limbs of 13 bits, most significant     *)
(* first; its value is m * 2^(e - 52).                                     *)
(***************************************************************************)
LimbBase == 2^13

RECURSIVE BitLen(_)
BitLen(v) == IF v = 0 THEN 0 ELSE 1 + BitLen(v \div 2)

RECURSIVE ShiftFor(_, _)
ShiftFor(k, n) == IF k >= n THEN 0 ELSE 1 + ShiftFor(2 * k, n)

FZero == [e |-> 0, m |-> <<0, 0, 0, 0, 0>>]

\* round the significand m (guard bit and sticky bit follow it) to nearest even
RoundEven(m, e, guard, sticky) ==
    IF ~(guard /\ (sticky \/ m[5] % 2 = 1)) THEN [e |-> e, m |-> m]
    ELSE LET v5 == m[5] + 1
             v4 == m[4] + v5 \div LimbBase
             v3 == m[3] + v4 \div LimbBase
             v2 == m[2] + v3 \div LimbBase
             v1 == m[1] + v2 \div LimbBase
         IN  IF v1 = 2 THEN [e |-> e + 1, m |-> <<1, 0, 0, 0, 0>>]
             ELSE [e |-> e, m |-> <<v1, v2 % LimbBase, v3 % LimbBase,
                                    v4 % LimbBase, v5 % LimbBase>>]

\* k / n of two ints, 0 <= k, 1 <= n: Python's true division
FDiv(k, n) ==
    IF k = 0 THEN FZero
    ELSE LET s  == ShiftFor(k, n)
             a  == k * 2^s
             sh == BitLen(a \div n) - 1
             d  == n * 2^sh
             r0 == a - d
             r1 == (r0 * LimbBase) % d
             r2 == (r1 * LimbBase) % d
             r3 == (r2 * LimbBase) % d
             r4 == (r3 * LimbBase) % d
             m  == <<1, (r0 * LimbBase) \div d, (r1 * LimbBase) \div d,
                     (r2 * LimbBase) \div d, (r3 * LimbBase) \div d>>
         IN  RoundEven(m, sh - s, 2 * r4 >= d, (2 * r4) % d # 0)

\* x * c for a float x and a small non-negative integer-valued float c
FMulInt(x, c) ==
    IF x = FZero \/ c = 0 THEN FZero
    ELSE LET v5 == x.m[5] * c
             v4 == x.m[4] * c + v5 \div LimbBase
             v3 == x.m[3] * c + v4 \div LimbBase
             v2 == x.m[2] * c + v3 \div LimbBase
             v1 == x.m[1] * c + v2 \div LimbBase
             w  == <<v1, v2 % LimbBase, v3 % LimbBase, v4 % LimbBase, v5 % LimbBase>>
             sh == BitLen(v1) - 1
             lo == 2^sh
             m  == [i \in 1..5 |->
                      IF i = 1 THEN w[1] \div lo
                      ELSE (w[i - 1] % lo) * (LimbBase \div lo) + w[i] \div lo]
             dropped == w[5] % lo
         IN  IF sh = 0 THEN [e |-> x.e, m |-> w]
             ELSE RoundEven(m, x.e + sh, dropped >= lo \div 2,
                            dropped % (lo \div 2) # 0)

\* float(t) of a non-negative integer t < 2^13 (exact)
FInt(t) ==
    IF t = 0 THEN FZero
    ELSE LET e == BitLen(t) - 1
         IN  [e |-> e, m |-> <<1, (t - 2^e) * (LimbBase \div 2^e), 0, 0, 0>>]

\* x >= y on non-negative floats
FGeq(x, y) ==
    IF y = FZero THEN TRUE
    ELSE IF x = FZero THEN FALSE
    ELSE IF x.e # y.e THEN x.e > y.e
    ELSE LET d == {i \in 1..5 : x.m[i] # y.m[i]}
         IN  d = {} \/ LET i == CHOOSE j \in d : \A h \in d : j <= h
                       IN  x.m[i] > y.m[i]

(***************************************************************************)
(* State.                                                                  *)
(***************************************************************************)
VARIABLES
    \* configuration read from the environment, immutable afterwards
    WINDOW_SIZE, ERROR_RATE_THRESHOLD, ALERT_COOLDOWN_SEC, MAINTENANCE_MODE,
    \* the module's globals
    window, last_seen_pool, last_alert_time,
    \* the timestamps handed to post_slack, per category, in order
    posted,
    \* the outcomes of the most recent WINDOW_SIZE + 1 processed lines
    hist,
    \* whether the last processed line called handle_error_rate, handle_failover
    rate_called, failover_called,
    \* the last direct call of an alert handler: category, clock reading, and
    \* whether it posted
    last_call,
    \* two workers inside an alert handler: position, category, clock reading
    wpc, wcat, wnow,
    \* the log file, the reader's offset in it, the lines tail_f has yielded,
    \* and the file's length when tail_f opened it
    file, fh_pos, yielded, open_at,
    \* whether the rate condition of lines 138-141 has been evaluated on window
    rate_evaluated,
    \* the last processed line: the categories it handed to post_slack, in
    \* order, and the exception process_line raised on it
    sent, raised,
    \* the pool carried by the last line fed to the pool-flip detector
    line_pool,
    \* watcher_main: where it is, its retries counter, whether the log file exists
    pc, retries, log_exists,
    \* how the last post_slack call ended, and per category the gate timestamp
    \* of the last notification whose delivery failed
    post_result, last_failed,
    \* the wall clock, where it only advances
    clock,
    \* the status fields of a line to classify, and the outcome computed for it
    fields, outcome

config  == <<WINDOW_SIZE, ERROR_RATE_THRESHOLD, ALERT_COOLDOWN_SEC, MAINTENANCE_MODE>>
alerts  == <<last_alert_time, posted>>
engine  == <<window, last_seen_pool, hist, rate_called, failover_called>>
workers == <<wpc, wcat, wnow>>
reader  == <<file, fh_pos, yielded, open_at>>
lastline == <<line_pool, sent, raised>>
startup == <<pc, retries, log_exists>>
delivery == <<post_result, last_failed>>
classify == <<fields, outcome>>

vars == <<config, alerts, engine, last_call, workers, reader, rate_evaluated,
          lastline, startup, delivery, clock, classify>>

(***************************************************************************)
(* A log line, as the five regex searches of process_line see it: the      *)
(* group each search captures, or no match.  Status fields are strings,    *)
(* held as sequences of characters.                                        *)
(***************************************************************************)
NoMatch == <<>>

Pools == {"blue", "green"}

UpstreamStatuses == {<<"-">>, <<"5", "0", "3">>}

RequestStatuses == {<<"2", "0", "0">>, <<"5", "0", "0">>}

LogLines == [pool : Pools \cup {None}, upstat : UpstreamStatuses, status : RequestStatuses]

Thresholds == {0, 50, 100}

Digits == <<"0", "1", "2", "3", "4", "5", "6", "7", "8", "9">>

DigitVal(c) == (CHOOSE i \in 1..10 : Digits[i] = c) - 1

IsDigit(c) == \E i \in 1..10 : Digits[i] = c

RECURSIVE DecimalVal(_)
DecimalVal(s) ==
    IF s = <<>> THEN 0
    ELSE 10 * DecimalVal(SubSeq(s, 1, Len(s) - 1)) + DigitVal(s[Len(s)])

\* int(status_str) on a string without leading or trailing whitespace and
\* without underscores: an optional sign and decimal digits, else ValueError
PyInt(s) ==
    LET signed == s # <<>> /\ s[1] \in {"+", "-"}
        digits == IF signed THEN Tail(s) ELSE s
    IN  IF digits = <<>> \/ \E i \in 1..Len(digits) : ~IsDigit(digits[i])
        THEN [ok |-> FALSE, v |-> 0]
        ELSE [ok |-> TRUE,
              v  |-> IF signed /\ s[1] = "-" THEN 0 - DecimalVal(digits)
                     ELSE DecimalVal(digits)]

is_error_status(status_str) ==
    LET s == PyInt(status_str)
    IN  s.ok /\ 500 <= s.v /\ s.v <= 599

\* an upstream status that is no error falls back to the request status
LineIsErrFallsBack(line) ==
    \/ line.upstat # NoMatch /\ line.upstat # <<"-">> /\ is_error_status(line.upstat)
    \/ line.status # NoMatch /\ is_error_status(line.status)

\* lines 127-133 of process_line
LineIsErr(line) ==
    IF line.upstat # NoMatch /\ line.upstat # <<"-">> THEN is_error_status(line.upstat)
    ELSE IF line.status # NoMatch THEN is_error_status(line.status)
    ELSE FALSE

\* LineIsErr on every modelled line, computed once
IsErrOf == [line \in LogLines |-> LineIsErr(line)] @@ <<>>

\* a full deque drops the new item instead of its oldest one
DequeAppendDropsNew(w, x, maxlen) ==
    IF maxlen = 0 \/ Len(w) = maxlen THEN w ELSE Append(w, x)

\* collections.deque(maxlen).append(x)
DequeAppend(w, x, maxlen) ==
    IF maxlen = 0 THEN w
    ELSE IF Len(w) = maxlen THEN Append(Tail(w), x)
    ELSE Append(w, x)

\* sum(window)
NumErrors(w) == Cardinality({i \in 1..Len(w) : w[i]})

\* rate = (num_errors / len(window)) * 100.0; rate >= ERROR_RATE_THRESHOLD
RateAtLeast(num_errors, len, threshold) ==
    FGeq(FMulInt(FDiv(num_errors, len), 100), FInt(threshold))

\* RateAtLeast on every window the engine can hold, computed once
RateTable ==
    [len \in 1..MaxN |-> [k \in 0..len |->
        [t \in Thresholds |-> RateAtLeast(k, len, t)]]] @@ <<>>

(***************************************************************************)
(* The alert handlers, on the pair g = [last_alert_time, posted]; now is   *)
(* what time.time() returns.                                               *)
(***************************************************************************)
\* handle_failover without its cooldown check
handle_failover_no_cooldown(g, now) ==
    IF MAINTENANCE_MODE THEN g
    ELSE [last_alert_time |-> [g.last_alert_time EXCEPT !["failover"] = now],
          posted |-> [g.posted EXCEPT !["failover"] = Append(@, now)]]

\* handle_failover recording its alert time under the other category's key
handle_failover_shared_key(g, now) ==
    IF MAINTENANCE_MODE THEN g
    ELSE IF now - g.last_alert_time["failover"] < ALERT_COOLDOWN_SEC THEN g
    ELSE [last_alert_time |-> [g.last_alert_time EXCEPT !["error_rate"] = now],
          posted |-> [g.posted EXCEPT !["failover"] = Append(@, now)]]

handle_failover(g, now) ==
    IF MAINTENANCE_MODE THEN g
    ELSE IF now - g.last_alert_time["failover"] < ALERT_COOLDOWN_SEC THEN g
    ELSE [last_alert_time |-> [g.last_alert_time EXCEPT !["failover"] = now],
          posted |-> [g.posted EXCEPT !["failover"] = Append(@, now)]]

\* handle_error_rate alerting once and never again
handle_error_rate_once(g, now) ==
    IF MAINTENANCE_MODE THEN g
    ELSE IF g.posted["error_rate"] # <<>> THEN g
    ELSE IF now - g.last_alert_time["error_rate"] < ALERT_COOLDOWN_SEC THEN g
    ELSE [last_alert_time |-> [g.last_alert_time EXCEPT !["error_rate"] = now],
          posted |-> [g.posted EXCEPT !["error_rate"] = Append(@, now)]]

\* handle_error_rate without its maintenance check
handle_error_rate_no_maintenance(g, now) ==
    IF now - g.last_alert_time["error_rate"] < ALERT_COOLDOWN_SEC THEN g
    ELSE [last_alert_time |-> [g.last_alert_time EXCEPT !["error_rate"] = now],
          posted |-> [g.posted EXCEPT !["error_rate"] = Append(@, now)]]

handle_error_rate(g, now) ==
    IF MAINTENANCE_MODE THEN g
    ELSE IF now - g.last_alert_time["error_rate"] < ALERT_COOLDOWN_SEC THEN g
    ELSE [last_alert_time |-> [g.last_alert_time EXCEPT !["error_rate"] = now],
          posted |-> [g.posted EXCEPT !["error_rate"] = Append(@, now)]]

\* what time.time() can return to a handler that is called; a handler that is
\* not called reads no clock
ClockReads(called) == IF called THEN Times ELSE {0}

(***************************************************************************)
(* process_line, as watcher_main calls it on one yielded line.  nowE and   *)
(* nowF are the clock readings handle_error_rate and handle_failover take. *)
(***************************************************************************)
\* the rate is looked at as soon as the window holds one outcome
WindowFullAny(w) == Len(w) >= 1

\* line 138: the window is full after the append
WindowFull(w) == Len(w) >= WINDOW_SIZE

\* line 140 divides by len(window): ZeroDivisionError on an empty window
RateRaises(w) == WindowFull(w) /\ Len(w) = 0

\* lines 138-142 reach handle_error_rate
CallsErrorRate(w) ==
    /\ WindowFull(w)
    /\ ~RateRaises(w)
    /\ RateTable[Len(w)][NumErrors(w)][ERROR_RATE_THRESHOLD]

\* lines 145-151 reach handle_failover
CallsFailover(line) ==
    /\ line.pool # None
    /\ last_seen_pool # None
    /\ line.pool # last_seen_pool

\* a line without a pool resets the tracked pool
TrackedPoolResets(line) == line.pool

\* the tracked pool is set once and never follows a flip
TrackedPoolFirstOnly(line) ==
    IF last_seen_pool = None THEN line.pool ELSE last_seen_pool

\* lines 145-152: last_seen_pool after a line, whatever handle_failover did
TrackedPool(line) ==
    IF line.pool # None THEN line.pool ELSE last_seen_pool

LastK(s, k) == IF Len(s) <= k THEN s ELSE SubSeq(s, Len(s) - k + 1, Len(s))

\* the failover handler is reached before the error-rate handler
line_handlers_flip_first(line, w) ==
    (IF CallsFailover(line) THEN <<"failover">> ELSE <<>>)
        \o (IF CallsErrorRate(w) THEN <<"error_rate">> ELSE <<>>)

\* lines 138-152 on the window w after the append: the handlers one line
\* reaches, in the order it reaches them
line_handlers(line, w) ==
    (IF CallsErrorRate(w) THEN <<"error_rate">> ELSE <<>>)
        \o (IF CallsFailover(line) THEN <<"failover">> ELSE <<>>)

handle(c, g, now) ==
    IF c = "failover" THEN handle_failover(g, now) ELSE handle_error_rate(g, now)

\* the except clause lets every exception through
CatchesNothing(e) == FALSE

\* line 168, except Exception: ZeroDivisionError derives from Exception
CatchesException(e) == e \in {"ZeroDivisionError"}

\* the two handler calls of one line, from the globals g0: the globals after
\* each call
handler_calls(hs, g0, nowE, nowF) ==
    LET now == [c \in Categories |-> IF c = "failover" THEN nowF ELSE nowE]
        g1  == IF Len(hs) >= 1 THEN handle(hs[1], g0, now[hs[1]]) ELSE g0
    IN  <<g1, IF Len(hs) >= 2 THEN handle(hs[2], g1, now[hs[2]]) ELSE g1>>

process_line(line, nowE, nowF) ==
    \E w \in {DequeAppend(window, IsErrOf[line], WINDOW_SIZE)} :
    \E hs \in {line_handlers(line, w)} :
    \E g0 \in {[last_alert_time |-> last_alert_time, posted |-> posted]} :
    \E g \in {handler_calls(hs, g0, nowE, nowF)} :
        /\ window' = w
        /\ hist' = LastK(Append(hist, IsErrOf[line]), WINDOW_SIZE + 1)
        /\ rate_called' = (\E i \in 1..Len(hs) : hs[i] = "error_rate")
        /\ IF RateRaises(w)
           THEN \* the exception leaves process_line before the pool is looked at;
                \* lines 166-169 decide whether the loop goes on
                /\ raised' = "ZeroDivisionError"
                /\ pc' = IF CatchesException("ZeroDivisionError") THEN "tailing"
                         ELSE "crashed"
                /\ failover_called' = FALSE
                /\ sent' = <<>>
                /\ UNCHANGED <<last_seen_pool, last_alert_time, posted>>
           ELSE /\ raised' = None
                /\ pc' = "tailing"
                /\ failover_called' = (\E i \in 1..Len(hs) : hs[i] = "failover")
                /\ last_seen_pool' = TrackedPool(line)
                /\ last_alert_time' = g[2].last_alert_time
                /\ posted' = g[2].posted
                /\ sent' = (IF g[1].posted # g0.posted THEN <<hs[1]>> ELSE <<>>)
                               \o (IF g[2].posted # g[1].posted THEN <<hs[2]>> ELSE <<>>)
        /\ UNCHANGED <<config, last_call, workers, reader, rate_evaluated,
                       retries, log_exists, delivery, classify>>

\* one turn of the loop of lines 165-169 on a yielded line
ProcessLine ==
    /\ pc = "tailing"
    /\ UNCHANGED <<clock, line_pool>>
    /\ \E line \in LogLines :
           LET w == DequeAppend(window, IsErrOf[line], WINDOW_SIZE)
           IN  \E nowE \in ClockReads(CallsErrorRate(w)) :
                   \E nowF \in ClockReads(CallsFailover(line) /\ ~RateRaises(w)) :
                       process_line(line, nowE, nowF)

\* the same turn of the loop, with the pool the line carried written down
FeedLine ==
    /\ pc = "tailing"
    /\ UNCHANGED clock
    /\ \E line \in LogLines :
           LET w == DequeAppend(window, IsErrOf[line], WINDOW_SIZE)
           IN  \E nowE \in ClockReads(CallsErrorRate(w)) :
                   \E nowF \in ClockReads(CallsFailover(line) /\ ~RateRaises(w)) :
                       /\ process_line(line, nowE, nowF)
                       /\ line_pool' = line.pool

(***************************************************************************)
(* The state after the module's top level has run (lines 17-35).           *)
(***************************************************************************)
NoCall == [cat |-> None, now |-> 0, fired |-> FALSE]

\* no timestamp
NoTime == 0 - 1

\* a status field of a line, by what the line holds there: nothing the regex
\* matches, the placeholder "-", the decimal form of the integer v, or text
Absent == [kind |-> "absent", v |-> 0, text |-> <<>>]

Placeholder == [kind |-> "placeholder", v |-> 0, text |-> <<>>]

Numeric(v) == [kind |-> "numeric", v |-> v, text |-> <<>>]

Text(t) == [kind |-> "text", v |-> 0, text |-> t]

\* no line to classify
NoFields == [up |-> Absent, st |-> Absent]

Workers == {1, 2}

GlobalsInit ==
    /\ window = <<>>
    /\ last_seen_pool = None
    /\ last_alert_time = [c \in Categories |-> 0]
    /\ posted = [c \in Categories |-> <<>>]
    /\ hist = <<>>
    /\ rate_called = FALSE
    /\ failover_called = FALSE
    /\ last_call = NoCall
    /\ rate_evaluated = FALSE
    /\ line_pool = None
    /\ sent = <<>>
    /\ raised = None
    /\ post_result = None
    /\ last_failed = [c \in Categories |-> NoTime]
    /\ clock = 0
    /\ fields = NoFields
    /\ outcome = <<>>

\* watcher_main has found the log file and entered the loop of line 165
Tailing ==
    /\ pc = "tailing"
    /\ retries = 0
    /\ log_exists = TRUE

WorkersInit ==
    /\ wpc = [w \in Workers |-> "idle"]
    /\ wcat = [w \in Workers |-> None]
    /\ wnow = [w \in Workers |-> 0]

\* the reader's offset before tail_f has opened the file
Closed == 0 - 1

ReaderInit ==
    /\ file = <<>>
    /\ fh_pos = Closed
    /\ yielded = <<>>
    /\ open_at = 0

Init ==
    /\ Tailing
    /\ WINDOW_SIZE \in 0..MaxN
    /\ ERROR_RATE_THRESHOLD \in Thresholds
    /\ ALERT_COOLDOWN_SEC \in 1..MaxCooldown
    /\ MAINTENANCE_MODE \in BOOLEAN
    /\ GlobalsInit
    /\ WorkersInit
    /\ ReaderInit

\* the alert handlers read only the cooldown and the maintenance flag
InitGate ==
    /\ Tailing
    /\ WINDOW_SIZE = MaxN
    /\ ERROR_RATE_THRESHOLD = 100
    /\ ALERT_COOLDOWN_SEC \in 1..MaxCooldown
    /\ MAINTENANCE_MODE \in BOOLEAN
    /\ GlobalsInit
    /\ WorkersInit
    /\ ReaderInit

\* tail_f reads no configuration but the path
InitReader ==
    /\ Tailing
    /\ WINDOW_SIZE = MaxN
    /\ ERROR_RATE_THRESHOLD = 100
    /\ ALERT_COOLDOWN_SEC = MaxCooldown
    /\ MAINTENANCE_MODE = FALSE
    /\ GlobalsInit
    /\ WorkersInit
    /\ ReaderInit

Next == ProcessLine

\* the engine: watcher_main feeding lines to process_line
Spec == Init /\ [][Next]_vars

\* the pool-flip detector looks at no threshold, and at the cooldown only
\* through handle_failover
InitDetector ==
    /\ Tailing
    /\ WINDOW_SIZE \in 0..MaxN
    /\ ERROR_RATE_THRESHOLD = 50
    /\ ALERT_COOLDOWN_SEC \in 1..MaxCooldown
    /\ MAINTENANCE_MODE \in BOOLEAN
    /\ GlobalsInit
    /\ WorkersInit
    /\ ReaderInit

NextDetector == FeedLine

\* the engine with the pool of every line written down
SpecDetector == InitDetector /\ [][NextDetector]_vars

(***************************************************************************)
(* The alert gate on its own: the two handlers called directly, in any     *)
(* order, with any clock readings.                                         *)
(***************************************************************************)
CallFailover ==
    \E now \in ClockReads(TRUE) :
        LET g == handle_failover([last_alert_time |-> last_alert_time,
                                  posted |-> posted], now)
        IN  /\ last_alert_time' = g.last_alert_time
            /\ posted' = g.posted
            /\ last_call' = [cat |-> "failover", now |-> now,
                             fired |-> g.posted # posted]
            /\ UNCHANGED <<config, engine, workers, reader, rate_evaluated,
                         lastline, startup, delivery, clock, classify>>

CallErrorRate ==
    \E now \in ClockReads(TRUE) :
        LET g == handle_error_rate([last_alert_time |-> last_alert_time,
                                    posted |-> posted], now)
        IN  /\ last_alert_time' = g.last_alert_time
            /\ posted' = g.posted
            /\ last_call' = [cat |-> "error_rate", now |-> now,
                             fired |-> g.posted # posted]
            /\ UNCHANGED <<config, engine, workers, reader, rate_evaluated,
                         lastline, startup, delivery, clock, classify>>

NextGate == CallFailover \/ CallErrorRate

SpecGate == InitGate /\ [][NextGate]_vars

(***************************************************************************)
(* Two workers inside the alert handlers at once.  A handler runs in three *)
(* steps: the maintenance check, the clock reading and the cooldown check  *)
(* (lines 66-72); the recording of the alert time (line 73); the post      *)
(* (lines 74-75).  Nothing in the handlers orders the steps of one worker  *)
(* against those of the other.                                             *)
(***************************************************************************)
WorkerCheck(w, c) ==
    /\ wpc[w] = "idle"
    /\ \E now \in ClockReads(TRUE) :
           IF MAINTENANCE_MODE \/ now - last_alert_time[c] < ALERT_COOLDOWN_SEC
           THEN UNCHANGED workers
           ELSE /\ wpc' = [wpc EXCEPT ![w] = "passed"]
                /\ wcat' = [wcat EXCEPT ![w] = c]
                /\ wnow' = [wnow EXCEPT ![w] = now]
    /\ UNCHANGED <<config, alerts, engine, last_call, reader, rate_evaluated,
                   lastline, startup, delivery, clock, classify>>

WorkerRecord(w) ==
    /\ wpc[w] = "passed"
    /\ last_alert_time' = [last_alert_time EXCEPT ![wcat[w]] = wnow[w]]
    /\ wpc' = [wpc EXCEPT ![w] = "recorded"]
    /\ UNCHANGED <<config, posted, engine, last_call, wcat, wnow, reader, rate_evaluated,
                   lastline, startup, delivery, clock, classify>>

\* how the request of lines 50-51 can end: a success response, an exception
\* of requests.post, a non-success response (raise_for_status), a timeout
PostResults == {"ok", "exception", "bad_status", "timeout"}

\* a failed delivery resets the category's last alert time
WorkerPostRollsBack(w) ==
    /\ wpc[w] = "recorded"
    /\ posted' = [posted EXCEPT ![wcat[w]] = Append(@, wnow[w])]
    /\ \E r \in PostResults :
           /\ post_result' = r
           /\ last_failed' = IF r = "ok" THEN last_failed
                             ELSE [last_failed EXCEPT ![wcat[w]] = wnow[w]]
           /\ last_alert_time' = IF r = "ok" THEN last_alert_time
                                 ELSE [last_alert_time EXCEPT ![wcat[w]] = 0]
    /\ wpc' = [wpc EXCEPT ![w] = "idle"]
    /\ wcat' = [wcat EXCEPT ![w] = None]
    /\ wnow' = [wnow EXCEPT ![w] = 0]
    /\ UNCHANGED <<config, engine, last_call, reader, rate_evaluated,
                   lastline, startup, clock, classify>>

\* lines 74-75 and post_slack (45-54): the message is handed to the notifier
\* once; whatever the request does is caught and printed, and the handler
\* returns
WorkerPost(w) ==
    /\ wpc[w] = "recorded"
    /\ posted' = [posted EXCEPT ![wcat[w]] = Append(@, wnow[w])]
    /\ \E r \in PostResults :
           /\ post_result' = r
           /\ last_failed' = IF r = "ok" THEN last_failed
                             ELSE [last_failed EXCEPT ![wcat[w]] = wnow[w]]
    /\ wpc' = [wpc EXCEPT ![w] = "idle"]
    /\ wcat' = [wcat EXCEPT ![w] = None]
    /\ wnow' = [wnow EXCEPT ![w] = 0]
    /\ UNCHANGED <<config, last_alert_time, engine, last_call, reader, rate_evaluated,
                   lastline, startup, clock, classify>>

NextWorkers ==
    \E w \in Workers :
        \/ \E c \in Categories : WorkerCheck(w, c)
        \/ WorkerRecord(w)
        \/ WorkerPost(w)

SpecWorkers == InitGate /\ [][NextWorkers]_vars

(***************************************************************************)
(* The program as it runs: one thread inside the alert handlers, taking    *)
(* the same three steps.                                                   *)
(***************************************************************************)
MainThread == CHOOSE w \in Workers : \A v \in Workers : w <= v

NextNotify ==
    \/ \E c \in Categories : WorkerCheck(MainThread, c)
    \/ WorkerRecord(MainThread)
    \/ WorkerPost(MainThread)

SpecNotify == InitGate /\ [][NextNotify]_vars

(***************************************************************************)
(* tail_f and the writer of the log.  The file is a sequence of            *)
(* characters; the writer appends one character at a time.                 *)
(***************************************************************************)
\* the log file holds at most MaxFile characters
MaxFile == 4

Chars == {"a", "\n"}

\* what fh.readline() returns at offset pos: up to and including the next
\* newline, or up to the end of the file when no newline follows
ReadLine(f, pos) ==
    LET rest == SubSeq(f, pos + 1, Len(f))
        nl   == {i \in 1..Len(rest) : rest[i] = "\n"}
    IN  IF nl = {} THEN rest
        ELSE SubSeq(rest, 1, CHOOSE i \in nl : \A j \in nl : i <= j)

WriterAppend ==
    /\ Len(file) < MaxFile
    /\ \E ch \in Chars : file' = Append(file, ch)
    /\ UNCHANGED <<config, alerts, engine, last_call, workers, fh_pos, yielded,
                   open_at, rate_evaluated, lastline, startup, delivery, clock, classify>>

\* lines 92-94: open the file and seek to its end
TailOpen ==
    /\ fh_pos = Closed
    /\ fh_pos' = Len(file)
    /\ open_at' = Len(file)
    /\ UNCHANGED <<config, alerts, engine, last_call, workers, file, yielded,
                   rate_evaluated, lastline, startup, delivery, clock, classify>>

\* lines 95-100: one turn of the loop
TailPoll ==
    /\ fh_pos # Closed
    /\ LET line == ReadLine(file, fh_pos)
       IN  IF line = <<>>
           THEN \* time.sleep(0.1); continue
                UNCHANGED <<fh_pos, yielded>>
           ELSE /\ yielded' = Append(yielded, line)
                /\ fh_pos' = fh_pos + Len(line)
    /\ UNCHANGED <<config, alerts, engine, last_call, workers, file, open_at,
                   rate_evaluated, lastline, startup, delivery, clock, classify>>

NextReader == WriterAppend \/ TailOpen \/ TailPoll

SpecReader == InitReader /\ [][NextReader]_vars

(***************************************************************************)
(* The rate condition of process_line (lines 138-141) applied to a full    *)
(* window of WINDOW_SIZE outcomes.                                         *)
(***************************************************************************)
\* WINDOW_SIZE is drawn from 1..MaxRateN
MaxRateN == 50

RateThresholds == {0, 2, 40, 58, 100}

\* a window of n outcomes, the first k of them errors
WindowOf(n, k) == [i \in 1..n |-> i <= k]

InitRate ==
    /\ WINDOW_SIZE \in 1..MaxRateN
    /\ ERROR_RATE_THRESHOLD \in RateThresholds
    /\ ALERT_COOLDOWN_SEC = 1
    /\ MAINTENANCE_MODE = FALSE
    /\ \E k \in 0..WINDOW_SIZE : window = WindowOf(WINDOW_SIZE, k)
    /\ hist = window
    /\ last_seen_pool = None
    /\ last_alert_time = [c \in Categories |-> 0]
    /\ posted = [c \in Categories |-> <<>>]
    /\ rate_called = FALSE
    /\ failover_called = FALSE
    /\ last_call = NoCall
    /\ rate_evaluated = FALSE
    /\ line_pool = None
    /\ sent = <<>>
    /\ raised = None
    /\ post_result = None
    /\ last_failed = [c \in Categories |-> NoTime]
    /\ clock = 0
    /\ fields = NoFields
    /\ outcome = <<>>
    /\ Tailing
    /\ WorkersInit
    /\ ReaderInit

EvaluateRate ==
    /\ ~rate_evaluated
    /\ rate_evaluated' = TRUE
    /\ rate_called' = /\ WindowFull(window)
                      /\ ~RateRaises(window)
                      /\ RateAtLeast(NumErrors(window), Len(window),
                                     ERROR_RATE_THRESHOLD)
    /\ UNCHANGED <<config, alerts, window, last_seen_pool, hist, failover_called,
                   last_call, workers, reader, lastline, startup, delivery, clock, classify>>

NextRate == EvaluateRate

SpecRate == InitRate /\ [][NextRate]_vars

(***************************************************************************)
(* The startup of watcher_main (lines 156-165).  The log file, once        *)
(* created, stays.                                                         *)
(***************************************************************************)
\* the bound of the wait loop's retries counter
RetryBudget == 600

InitStartup ==
    /\ pc = "waiting"
    /\ retries = 0
    /\ log_exists \in BOOLEAN
    /\ WINDOW_SIZE = MaxN
    /\ ERROR_RATE_THRESHOLD = 100
    /\ ALERT_COOLDOWN_SEC = MaxCooldown
    /\ MAINTENANCE_MODE = FALSE
    /\ GlobalsInit
    /\ WorkersInit
    /\ ReaderInit

\* the log file is created
LogAppears ==
    /\ ~log_exists
    /\ log_exists' = TRUE
    /\ UNCHANGED <<config, alerts, engine, last_call, workers, reader,
                   rate_evaluated, lastline, pc, retries, delivery, clock, classify>>

\* lines 157-160: one turn of the wait loop
WaitPoll ==
    /\ pc = "waiting"
    /\ ~log_exists /\ retries < RetryBudget
    /\ retries' = retries + 1
    /\ UNCHANGED <<config, alerts, engine, last_call, workers, reader,
                   rate_evaluated, lastline, pc, log_exists, delivery, clock, classify>>

\* the wait loop is left at any time
WaitEndEarly ==
    /\ pc = "waiting"
    /\ pc' = "checking"
    /\ UNCHANGED <<config, alerts, engine, last_call, workers, reader,
                   rate_evaluated, lastline, retries, log_exists, delivery, clock,
                   classify>>

\* line 157: the condition of the wait loop fails
WaitEnd ==
    /\ pc = "waiting"
    /\ ~(~log_exists /\ retries < RetryBudget)
    /\ pc' = "checking"
    /\ UNCHANGED <<config, alerts, engine, last_call, workers, reader,
                   rate_evaluated, lastline, retries, log_exists, delivery, clock,
                   classify>>

\* lines 161-165: return when the file is not there, else start tail_f, which
\* opens the file and seeks to its end
CheckExists ==
    /\ pc = "checking"
    /\ IF ~log_exists
       THEN /\ pc' = "exited"
            /\ UNCHANGED reader
       ELSE /\ pc' = "tailing"
            /\ fh_pos' = Len(file)
            /\ open_at' = Len(file)
            /\ UNCHANGED <<file, yielded>>
    /\ UNCHANGED <<config, alerts, engine, last_call, workers, rate_evaluated,
                   lastline, retries, log_exists, delivery, clock, classify>>

NextStartup == LogAppears \/ WaitPoll \/ WaitEnd \/ CheckExists

\* watcher_main is running code: each of its steps is taken when it can be
SpecStartup ==
    /\ InitStartup
    /\ [][NextStartup]_vars
    /\ WF_vars(WaitPoll)
    /\ WF_vars(WaitEnd)
    /\ WF_vars(CheckExists)

(***************************************************************************)
(* The engine under a sustained error rate: lines keep arriving, every     *)
(* line that finds the window full finds the rate at or above the          *)
(* threshold, and the clock only advances.                                 *)
(***************************************************************************)
\* the clock runs from 0 to MaxClock
MaxClock == 6

InitSustained ==
    /\ Tailing
    /\ WINDOW_SIZE \in 1..MaxN
    /\ ERROR_RATE_THRESHOLD \in Thresholds
    /\ ALERT_COOLDOWN_SEC \in 1..MaxCooldown
    /\ MAINTENANCE_MODE = FALSE
    /\ GlobalsInit
    /\ WorkersInit
    /\ ReaderInit

Tick ==
    /\ clock < MaxClock
    /\ clock' = clock + 1
    /\ UNCHANGED <<config, alerts, engine, last_call, workers, reader,
                   rate_evaluated, lastline, startup, delivery, classify>>

\* the lines of the sustained load carry no pool
SustainedLines == {line \in LogLines : line.pool = None}

\* one turn of the loop of lines 165-169; the handlers read the clock
SustainedLine ==
    /\ pc = "tailing"
    /\ UNCHANGED <<clock, line_pool>>
    /\ \E line \in SustainedLines :
           LET w == DequeAppend(window, IsErrOf[line], WINDOW_SIZE)
           IN  /\ WindowFull(w) => CallsErrorRate(w)
               /\ process_line(line, clock, clock)

NextSustained == Tick \/ SustainedLine

\* the clock keeps advancing and the loop keeps taking lines
SpecSustained ==
    /\ InitSustained
    /\ [][NextSustained]_vars
    /\ WF_vars(Tick)
    /\ WF_vars(SustainedLine)

(***************************************************************************)
(* The classification of process_line (lines 127-133) applied to the      *)
(* status fields of one line.                                              *)
(***************************************************************************)
RECURSIVE FormatNat(_)
\* the decimal digits of a natural number
FormatNat(n) ==
    IF n < 10 THEN <<Digits[n + 1]>>
    ELSE Append(FormatNat(n \div 10), Digits[(n % 10) + 1])

\* the decimal form of an integer, as a log line holds it
Format(v) == IF v < 0 THEN <<"-">> \o FormatNat(0 - v) ELSE FormatNat(v)

\* what the regex search captures from a status field
FieldText(f) ==
    CASE f.kind = "absent" -> NoMatch
      [] f.kind = "placeholder" -> <<"-">>
      [] f.kind = "numeric" -> Format(f.v)
      [] f.kind = "text" -> f.text

UpstreamValues == {200, 499, 500, 503, 599, 600, 50, 5030, 0 - 503}

UpstreamTexts ==
    {<<"a", "b", "c">>, <<"5", "x", "x">>,
     <<"5", "0", "2", ",", " ", "2", "0", "0">>}

\* STATUS_RE captures three digits
RequestValues == {200, 499, 500, 599, 600}

ClassifyInputs ==
    [up : {Absent, Placeholder} \cup {Numeric(v) : v \in UpstreamValues}
              \cup {Text(t) : t \in UpstreamTexts},
     st : {Absent} \cup {Numeric(v) : v \in RequestValues}]

InitClassify ==
    /\ Tailing
    /\ WINDOW_SIZE = MaxN
    /\ ERROR_RATE_THRESHOLD = 100
    /\ ALERT_COOLDOWN_SEC = MaxCooldown
    /\ MAINTENANCE_MODE = FALSE
    /\ window = <<>>
    /\ last_seen_pool = None
    /\ last_alert_time = [c \in Categories |-> 0]
    /\ posted = [c \in Categories |-> <<>>]
    /\ hist = <<>>
    /\ rate_called = FALSE
    /\ failover_called = FALSE
    /\ last_call = NoCall
    /\ rate_evaluated = FALSE
    /\ line_pool = None
    /\ sent = <<>>
    /\ raised = None
    /\ post_result = None
    /\ last_failed = [c \in Categories |-> NoTime]
    /\ clock = 0
    /\ fields \in ClassifyInputs
    /\ outcome = <<>>
    /\ WorkersInit
    /\ ReaderInit

Classify ==
    /\ outcome = <<>>
    /\ outcome' = <<LineIsErr([pool   |-> None,
                               upstat |-> FieldText(fields.up),
                               status |-> FieldText(fields.st)])>>
    /\ UNCHANGED <<config, alerts, engine, last_call, workers, reader,
                   rate_evaluated, lastline, startup, delivery, clock, fields>>

NextClassify == Classify

SpecClassify == InitClassify /\ [][NextClassify]_vars

(***************************************************************************)
(* Properties of the classification.                                       *)
(***************************************************************************)
\* the status the classification goes by: the upstream status when the line
\* has one that is not the placeholder, else the request status
Selected(f) ==
    IF f.up.kind \notin {"absent", "placeholder"} THEN f.up ELSE f.st

\* C13: the outcome is an error exactly when the selected status is a number
\* in 500..599; an upstream status that is text is no error whatever the
\* request status, and a line with neither status is no error.
ClassificationRule ==
    outcome # <<>> =>
        (outcome[1] <=>
            (Selected(fields).kind = "numeric" /\ Selected(fields).v \in 500..599))

\* an upstream status that is text has been classified as no error on a
\* line whose request status is 500
ClassificationWitness ==
    /\ outcome = <<FALSE>>
    /\ fields.up.kind = "text"
    /\ fields.st = Numeric(500)

(***************************************************************************)
(* Properties of the engine.                                               *)
(***************************************************************************)
Abs(x) == IF x < 0 THEN 0 - x ELSE x

\* C1: in each category, any two notifications handed to the notifier have
\* gate timestamps at least ALERT_COOLDOWN_SEC apart, whatever the lines and
\* the clock readings.
CooldownInvariant ==
    \A c \in Categories :
        \A i \in 1..Len(posted[c]) : \A j \in 1..Len(posted[c]) :
            i < j => Abs(posted[c][j] - posted[c][i]) >= ALERT_COOLDOWN_SEC

\* both categories have posted twice
CooldownWitness ==
    /\ Len(posted["failover"]) >= 2
    /\ Len(posted["error_rate"]) >= 2

\* C3: under maintenance mode nothing is ever handed to the notifier and no
\* last-alert time is ever changed, in either category.
MaintenanceSuppresses ==
    MAINTENANCE_MODE =>
        \A c \in Categories : posted[c] = <<>> /\ last_alert_time[c] = 0

\* under maintenance mode, one line has called both handlers
MaintenanceWitness ==
    MAINTENANCE_MODE /\ rate_called /\ failover_called

\* C8: the window never holds more than WINDOW_SIZE outcomes, and it holds
\* exactly the outcomes of the last WINDOW_SIZE processed lines, in arrival
\* order (all of them while fewer have been processed).
WindowFifo ==
    /\ Len(window) <= WINDOW_SIZE
    /\ window = LastK(hist, WINDOW_SIZE)

\* an outcome has been evicted from a window of two, which holds an error
\* followed by a non-error
WindowFifoWitness ==
    /\ WINDOW_SIZE = 2
    /\ Len(hist) = 3
    /\ hist = <<FALSE, TRUE, FALSE>>
    /\ window = <<TRUE, FALSE>>

\* C9: while fewer than WINDOW_SIZE lines have been processed, no line calls
\* handle_error_rate and no error_rate alert is recorded or posted.
ColdStart ==
    Len(hist) < WINDOW_SIZE =>
        /\ ~rate_called
        /\ posted["error_rate"] = <<>>
        /\ last_alert_time["error_rate"] = 0

\* one line of two has been processed, an error, and the threshold is one
\* that a window of that single outcome would meet
ColdStartWitness ==
    /\ WINDOW_SIZE = 2
    /\ hist = <<TRUE>>
    /\ ERROR_RATE_THRESHOLD = 50
    /\ ~MAINTENANCE_MODE

(***************************************************************************)
(* Properties of the alert gate.                                           *)
(***************************************************************************)
\* the timestamps a category had posted before the last direct call
PostedBefore ==
    LET p == posted[last_call.cat]
    IN  IF last_call.fired THEN SubSeq(p, 1, Len(p) - 1) ELSE p

\* C2: with maintenance mode off, a gate evaluation is approved exactly when
\* it is the first approval of its category or comes at least
\* ALERT_COOLDOWN_SEC after the last approved one; so the first evaluation
\* after startup is approved at any clock value, 0 included.
GateApprovalSequence ==
    (last_call.cat # None /\ ~MAINTENANCE_MODE) =>
        (last_call.fired <=>
            \/ PostedBefore = <<>>
            \/ last_call.now - PostedBefore[Len(PostedBefore)] >= ALERT_COOLDOWN_SEC)

\* C4: two workers that have both passed the gate of the same category hold
\* clock readings at least ALERT_COOLDOWN_SEC apart, and so do any two
\* notifications the workers post in a category.
AtomicCheckAndRecord ==
    /\ \A w1 \in Workers : \A w2 \in Workers :
           (w1 # w2 /\ wpc[w1] # "idle" /\ wpc[w2] # "idle" /\ wcat[w1] = wcat[w2])
               => Abs(wnow[w1] - wnow[w2]) >= ALERT_COOLDOWN_SEC
    /\ \A c \in Categories :
           \A i \in 1..Len(posted[c]) : \A j \in 1..Len(posted[c]) :
               i # j => Abs(posted[c][j] - posted[c][i]) >= ALERT_COOLDOWN_SEC

\* a call of one category's handler leaves the other category's state alone
OtherCategoryUnchanged ==
    \A c \in Categories :
        last_call'.cat # c =>
            /\ last_alert_time'[c] = last_alert_time[c]
            /\ posted'[c] = posted[c]

\* a suppressed call is suppressed by its own category's last alert time
SuppressedByOwnCategory ==
    (last_call.cat # None /\ ~last_call.fired /\ ~MAINTENANCE_MODE) =>
        last_call.now - last_alert_time[last_call.cat] < ALERT_COOLDOWN_SEC

\* C5: an approved or rejected gate evaluation of one category leaves the
\* other category's last-alert time (and posts) unchanged, and an evaluation
\* is suppressed only by its own category's last-alert time: an alert of the
\* other category never suppresses it.
CategoryIndependence ==
    /\ [][OtherCategoryUnchanged]_vars
    /\ []SuppressedByOwnCategory

\* an error_rate alert is approved at the very time a failover alert was sent
CategoryIndependenceWitness ==
    /\ ALERT_COOLDOWN_SEC = 2
    /\ posted["failover"] = <<2>>
    /\ last_call = [cat |-> "error_rate", now |-> 2, fired |-> TRUE]

(***************************************************************************)
(* Properties of the stream reader.                                        *)
(***************************************************************************)
\* C6: every line tail_f yields is a complete one, ended by its newline.
NoPartialLineYielded ==
    \A i \in 1..Len(yielded) : yielded[i][Len(yielded[i])] = "\n"

RECURSIVE CompleteLines(_)
\* the newline-terminated lines of a text, in order
CompleteLines(text) ==
    IF \A i \in 1..Len(text) : text[i] # "\n" THEN <<>>
    ELSE LET first == ReadLine(text, 0)
         IN  <<first>> \o CompleteLines(SubSeq(text, Len(first) + 1, Len(text)))

IsPrefix(s, t) == Len(s) <= Len(t) /\ s = SubSeq(t, 1, Len(s))

\* C7: the lines yielded so far are, in order, the first of the lines appended
\* to the file after tail_f opened it: nothing older, none twice, none skipped.
YieldsAppendedLines ==
    fh_pos # Closed =>
        IsPrefix(yielded, CompleteLines(SubSeq(file, open_at + 1, Len(file))))

(***************************************************************************)
(* Properties of the rate condition.                                       *)
(***************************************************************************)
\* C10: on a full window the error_rate gate is requested exactly when
\* 100 * (errors in the window) / WINDOW_SIZE >= ERROR_RATE_THRESHOLD,
\* equality included.
InclusiveThreshold ==
    rate_evaluated =>
        (rate_called <=>
            100 * NumErrors(window) >= ERROR_RATE_THRESHOLD * WINDOW_SIZE)

(***************************************************************************)
(* Properties of the notifier.                                             *)
(***************************************************************************)
\* C14: the last-alert time of a category is recorded before the
\* notification is sent; a failed delivery does not roll it back and is not
\* sent again; alerts of the category within ALERT_COOLDOWN_SEC of a failed
\* one do not pass the gate.
FailedSendConsumesCooldown ==
    /\ wpc[MainThread] = "recorded" =>
           last_alert_time[wcat[MainThread]] = wnow[MainThread]
    /\ \A c \in Categories :
           last_failed[c] # NoTime => last_alert_time[c] >= last_failed[c]
    /\ (wpc[MainThread] # "idle" /\ last_failed[wcat[MainThread]] # NoTime) =>
           wnow[MainThread] - last_failed[wcat[MainThread]] >= ALERT_COOLDOWN_SEC
    /\ \A c \in Categories :
           \A i \in 1..Len(posted[c]) : \A j \in 1..Len(posted[c]) :
               i # j => posted[c][i] # posted[c][j]

\* a delivery timed out at time 1, and the next alert of the category went
\* out one cooldown later
FailedSendWitness ==
    /\ ALERT_COOLDOWN_SEC = 1
    /\ last_failed["error_rate"] = 1
    /\ posted["error_rate"] = <<1, 2>>
    /\ post_result = "ok"

(***************************************************************************)
(* Properties of the pool-flip detector and of the engine loop.            *)
(***************************************************************************)
\* what C11 asks of one line
FlipRule ==
    /\ (last_seen_pool = None /\ line_pool' # None) =>
           (last_seen_pool' = line_pool' /\ ~failover_called')
    /\ last_seen_pool # None =>
           (failover_called' <=> (line_pool' # None /\ line_pool' # last_seen_pool))

\* C11: the first line carrying a pool sets the tracked pool without a flip;
\* after that a line emits a flip, once, exactly when it carries a pool other
\* than the tracked one.
PoolFlipDetection == [][FlipRule]_vars

BadLineNeverTerminates ==
    raised # None => (pc = "tailing" /\ ENABLED ProcessLine)

\* a line has raised ZeroDivisionError and the loop is running
BadLineWitness ==
    /\ raised = "ZeroDivisionError"
    /\ pc = "tailing"
    /\ hist # <<>>

\* C17: the notifications of one line go out error_rate first, failover
\* second, and each of them has passed the gate of its own category.
PerLineOrder ==
    /\ sent \in {<<>>, <<"error_rate">>, <<"failover">>, <<"error_rate", "failover">>}
    /\ \A i \in 1..Len(sent) :
           /\ posted[sent[i]] # <<>>
           /\ posted[sent[i]][Len(posted[sent[i]])] = last_alert_time[sent[i]]
    /\ rate_called => WindowFull(window)

\* one line has sent an error_rate notification and then a failover one
PerLineOrderWitness ==
    /\ sent = <<"error_rate", "failover">>
    /\ rate_called
    /\ failover_called

\* C18: a line carrying a pool other than the tracked one makes it the
\* tracked pool whether or not the failover alert goes out, and a line
\* repeating the tracked pool emits no flip.
FlipUpdatesTrackedPool ==
    [][/\ (line_pool' # None /\ last_seen_pool # None /\ line_pool' # last_seen_pool)
           => last_seen_pool' = line_pool'
       /\ (line_pool' # None /\ line_pool' = last_seen_pool) => ~failover_called']_vars

\* a flip to green was suppressed by the cooldown and green is the tracked
\* pool
FlipUpdatesWitness ==
    /\ ~MAINTENANCE_MODE
    /\ failover_called
    /\ sent = <<>>
    /\ line_pool = "green"
    /\ last_seen_pool = "green"

\* C16: the wait loop polls at most RetryBudget times; watcher_main leaves
\* it, and returns only with the budget used up and the file still missing,
\* having opened nothing, processed no line and sent no alert; a file that is
\* there while watcher_main waits is tailed.
StartupWaitTerminates ==
    /\ [](retries <= RetryBudget)
    /\ [](pc = "exited" =>
             /\ retries = RetryBudget
             /\ fh_pos = Closed /\ yielded = <<>> /\ hist = <<>>
             /\ \A c \in Categories : posted[c] = <<>>)
    /\ [](pc = "tailing" => (log_exists /\ fh_pos # Closed))
    /\ <>(pc \in {"tailing", "exited"})
    /\ ((log_exists /\ pc \in {"waiting", "checking"}) ~> pc = "tailing")

\* the file never appeared and watcher_main has returned after its last poll
StartupWaitWitness ==
    /\ pc = "exited"
    /\ retries = RetryBudget
    /\ ~log_exists

\* C19: with maintenance mode off, lines arriving, the rate at or above the
\* threshold on every line and the clock advancing, every error_rate
\* notification whose cooldown expires by MaxClock is followed by another one.
SustainedRateReAlerts ==
    \A k \in 0..MaxClock :
        (/\ rate_called
         /\ Len(posted["error_rate"]) = k
         /\ last_alert_time["error_rate"] + ALERT_COOLDOWN_SEC <= MaxClock)
            ~> (Len(posted["error_rate"]) > k)

\* three error_rate notifications have gone out, two cooldowns apart
SustainedRateWitness ==
    /\ rate_called
    /\ ALERT_COOLDOWN_SEC = 2
    /\ posted["error_rate"] = <<2, 4, 6>>

\* C20: for every window capacity, zero included, no line makes the rate
\* evaluation raise, so every line reaches pool-flip detection.
RateNeverBlocksFlip == raised = None

====
